---- MODULE Spec2Model ----
(***************************************************************************)
(* Model of the stock analytics backend (src/backend/main.py) and of the   *)
(* price file it loads (written by src/update_prices.py).                  *)
(*                                                                         *)
(* The price file is a sequence of rows; the panel df is that file after   *)
(* the load at import time.  Each endpoint is one action that reads df and *)
(* leaves its answer in resp.                                              *)
(*                                                                         *)
(* Conventions                                                             *)
(*   - a ticker is the sequence of the code points of its characters       *)
(*     (<<65, 66>> is "AB"), so that str.upper() and the ordering of       *)
(*     strings are computed, not assumed;                                  *)
(*   - a date is a day number (days since 1970-01-01); strftime turns it   *)
(*     into <<year, month, day>>;                                          *)
(*   - a float is a reduced fraction <<n, d>> with d > 0; <<0, 0>> is NaN, *)
(*     <<1, 0>> is +inf and <<-1, 0>> is -inf;                             *)
(*   - None is <<>> and Some(v) is <<v>> (Python's Optional).              *)
(***************************************************************************)
EXTENDS Integers, Sequences, FiniteSets, TLC

VARIABLES
    csv,     \* the price file: the rows of data/sp500_prices.csv, in file order
    df,      \* the panel loaded from it at import time
    ties,    \* how this build's single-column sort orders rows of equal date
    resp,    \* the answer of the request being served (None between requests)
    locals,  \* the local variables of the handler that produced resp
    noted     \* a client's notes: the first answer it got, to compare later ones with

vars == <<csv, df, ties, resp, locals, noted>>

----------------------------------------------------------------------------
(* Floats *)

Abs(n) == IF n < 0 THEN -n ELSE n

Sign(n) == IF n < 0 THEN -1 ELSE IF n > 0 THEN 1 ELSE 0

RECURSIVE Gcd(_, _)
Gcd(a, b) == IF b = 0 THEN a ELSE Gcd(b, a % b)

NaN == <<0, 0>>

Frac(n, d) ==
    IF d = 0 THEN <<Sign(n), 0>>
    ELSE LET g == Gcd(Abs(n), Abs(d))
         IN  <<Sign(d) * (n \div g), Abs(d) \div g>>

F(n) == <<n, 1>>

IsNaN(x) == x = NaN

IsFinite(x) == x[2] # 0

\* IEEE comparisons: every comparison with NaN is false
FLt(x, y) ==
    /\ ~IsNaN(x) /\ ~IsNaN(y)
    /\ IF x[2] = 0 /\ y[2] = 0 THEN x[1] < y[1]
       ELSE IF x[2] = 0 THEN x[1] < 0
       ELSE IF y[2] = 0 THEN y[1] > 0
       ELSE x[1] * y[2] < y[1] * x[2]

FGt(x, y) == FLt(y, x)

FEq(x, y) == ~IsNaN(x) /\ ~IsNaN(y) /\ x = y

FLe(x, y) == FLt(x, y) \/ FEq(x, y)

FGe(x, y) == FLe(y, x)

\* x / y on numpy floats: x/0 is +-inf, 0/0 and anything with NaN is NaN
FDiv(x, y) ==
    IF IsNaN(x) \/ IsNaN(y) THEN NaN
    ELSE IF x[2] = 0 /\ y[2] = 0 THEN NaN
    ELSE IF x[2] = 0 THEN <<x[1] * (IF y[1] < 0 THEN -1 ELSE 1), 0>>
    ELSE IF y[2] = 0 THEN F(0)
    ELSE Frac(x[1] * y[2], x[2] * y[1])

FAdd(x, y) ==
    IF IsNaN(x) \/ IsNaN(y) THEN NaN
    ELSE IF x[2] = 0 /\ y[2] = 0 THEN (IF x[1] = y[1] THEN x ELSE NaN)
    ELSE IF x[2] = 0 THEN x
    ELSE IF y[2] = 0 THEN y
    ELSE Frac(x[1] * y[2] + y[1] * x[2], x[2] * y[2])

FNeg(x) == <<-x[1], x[2]>>

FSub(x, y) == FAdd(x, FNeg(y))

----------------------------------------------------------------------------
(* Optionals and sequences *)

None == <<>>

Some(v) == <<v>>

Min(a, b) == IF a < b THEN a ELSE b

Max(a, b) == IF a > b THEN a ELSE b

\* a sequence given by a function on 1..n, as a tuple (the same value)
List(f) == f \o <<>>

\* s.tail(n), s[-n:]
Tail_(s, n) == SubSeq(s, Max(1, Len(s) - n + 1), Len(s))

\* s[:n]
Head_(s, n) == SubSeq(s, 1, Min(n, Len(s)))

----------------------------------------------------------------------------
(* Strings *)

\* str.upper() on ASCII: a..z (97..122) become A..Z (65..90)
Upper(s) == [i \in DOMAIN s |-> IF s[i] \in 97..122 THEN s[i] - 32 ELSE s[i]]

\* s < t on Python strings: lexicographic on code points
StrLess(s, t) ==
    \E i \in 1..(Min(Len(s), Len(t)) + 1) :
        /\ \A j \in 1..(i - 1) : s[j] = t[j]
        /\ \/ i > Len(s) /\ i <= Len(t)
           \/ i <= Len(s) /\ i <= Len(t) /\ s[i] < t[i]

----------------------------------------------------------------------------
(* The panel *)

Row(t, d, c) == [ticker |-> t, date |-> d, open |-> c, high |-> c, low |-> c, close |-> c]

\* the sort key of df.sort_values(["ticker", "date"])
KeyLess(r, q) ==
    \/ StrLess(r.ticker, q.ticker)
    \/ r.ticker = q.ticker /\ r.date < q.date

\* a stable sort of the rows on (ticker, date): pandas sorts on several
\* columns with a stable sort of the factorized keys (SortSeq is an
\* insertion sort that moves a row left only past strictly greater keys)
SortRows(rows) == SortSeq(rows, KeyLess)

\* df = pd.read_csv(...); ticker as str; sort; reset_index
Load(file) == SortRows(file)

\* sub.sort_values("date"): a single-column sort uses numpy's quicksort,
\* which is not stable: what it does with rows of equal date is a property
\* of the build (ties), the same in every call
DateLess(r, q) == r.date < q.date

DateLessEq(r, q) == r.date <= q.date

SortByDate(rows) ==
    IF ties = "keep" THEN SortSeq(rows, DateLess) ELSE SortSeq(rows, DateLessEq)

\* df[df["ticker"] == symbol].sort_values("date")
RowsOf(symbol) == SortByDate(SelectSeq(df, LAMBDA r : r.ticker = symbol))

Closes(rows) == List([i \in 1..Len(rows) |-> rows[i].close])

----------------------------------------------------------------------------
(* Calendar *)

IsLeap(y) == (y % 4 = 0 /\ y % 100 # 0) \/ y % 400 = 0

DaysInMonth(y, m) ==
    IF m = 2 THEN (IF IsLeap(y) THEN 29 ELSE 28)
    ELSE IF m \in {4, 6, 9, 11} THEN 30 ELSE 31

\* Timestamp -> "%Y-%m-%d": the civil date <<year, month, day>> of a day number
Strftime(z0) ==
    LET z == z0 + 719468
        era == z \div 146097
        doe == z - era * 146097
        yoe == (doe - doe \div 1460 + doe \div 36524 - doe \div 146096) \div 365
        doy == doe - (365 * yoe + yoe \div 4 - yoe \div 100)
        mp == (5 * doy + 2) \div 153
        d == doy - (153 * mp + 2) \div 5 + 1
        m == IF mp < 10 THEN mp + 3 ELSE mp - 9
    IN  <<yoe + era * 400 + (IF m <= 2 THEN 1 ELSE 0), m, d>>

\* the day number of a civil date (what parsing "Y-M-D" yields)
DayNumber(y0, m, d) ==
    LET y == IF m <= 2 THEN y0 - 1 ELSE y0
        era == y \div 400
        yoe == y - era * 400
        doy == (153 * (IF m > 2 THEN m - 3 ELSE m + 9) + 2) \div 5 + d - 1
        doe == yoe * 365 + yoe \div 4 - yoe \div 100 + doy
    IN  era * 146097 + doe - 719468

----------------------------------------------------------------------------
(* Statistics *)

\* a statistic whose value is irrational (a standard deviation, a median of
\* them) is carried unevaluated, as its name and the sample it is taken of
Stat(name, xs) == [stat |-> name, of |-> xs]

Values(s) == {s[i] : i \in 1..Len(s)}

\* Series.max() / Series.min(): NaN entries are skipped; NaN when none is left
MaxOf(s) ==
    LET v == Values(s) \ {NaN}
    IN  IF v = {} THEN NaN ELSE CHOOSE x \in v : \A y \in v : FLe(y, x)

MinOf(s) ==
    LET v == Values(s) \ {NaN}
    IN  IF v = {} THEN NaN ELSE CHOOSE x \in v : \A y \in v : FLe(x, y)

\* the sum of s[lo..hi], by halves
RECURSIVE SumOver(_, _, _)
SumOver(s, lo, hi) ==
    IF lo > hi THEN F(0)
    ELSE IF lo = hi THEN s[lo]
    ELSE LET mid == (lo + hi) \div 2
         IN  FAdd(SumOver(s, lo, mid), SumOver(s, mid + 1, hi))

\* the sum of a sequence of floats (NaN as soon as one entry is NaN)
Sum(s) == SumOver(s, 1, Len(s))

\* s / s.shift(1), without the first (undefined) entry
Ratios(s) == List([i \in 1..(Len(s) - 1) |-> FDiv(s[i + 1], s[i])])

\* Series.dropna()
DropNa(s) == SelectSeq(s, LAMBDA x : ~IsNaN(x))

----------------------------------------------------------------------------
(* GET /prices/{symbol} and the snapshot of POST /reports/stock *)

NotFound(op, symbol) ==
    [op |-> op, status |-> "NotFound", symbol |-> symbol, body |-> None]

\* (zero standing in for a missing history)
safe_return_Zero(closes, days) ==
    IF Len(closes) > days
    THEN Some(FSub(FDiv(closes[Len(closes)], closes[Len(closes) - days]), F(1)))
    ELSE Some(F(0))

\* safe_return(days) of build_stock_snapshot
safe_return(closes, days) ==
    IF Len(closes) > days
    THEN Some(FSub(FDiv(closes[Len(closes)], closes[Len(closes) - days]), F(1)))
    ELSE None

Snapshot(symbol, sub) ==
    LET closes == Closes(sub)
        last_row == sub[Len(sub)]
        window_1y == Tail_(closes, 252)
        \* np.log(w / w.shift(1)).dropna(): the log of a NaN or negative ratio is NaN
        log_returns == SelectSeq(Ratios(window_1y), LAMBDA x : ~IsNaN(x) /\ FGe(x, F(0)))
    IN  [ticker |-> symbol,
         last_date |-> Strftime(last_row.date),
         last_price |-> last_row.close,
         ret_1m |-> safe_return(closes, 21),
         ret_3m |-> safe_return(closes, 63),
         high_52w |-> IF Len(window_1y) > 0 THEN Some(MaxOf(window_1y)) ELSE None,
         low_52w |-> IF Len(window_1y) > 0 THEN Some(MinOf(window_1y)) ELSE None,
         vol_20d_annualized |->
             IF Len(window_1y) > 20
             THEN Some(Stat("std_log_x_sqrt252", Tail_(log_returns, 20)))
             ELSE None]

\* what a handler leaves behind: its answer and its local variables (one
\* request is served at a time: a handler starts when resp is None)
\* the call a handler was started by: its name and its arguments
CallOf(r) ==
    LET op == r.resp.op
    IN  IF op = "snapshot" THEN <<op, r.locals.ticker>>
        ELSE IF op = "prices" THEN <<op, r.locals.symbol>>
        ELSE IF op = "forecast"
        THEN <<op, r.locals.symbol, r.locals.start_date, r.locals.horizon>>
        ELSE IF op = "momentum" THEN <<op, r.locals.lookback_days, r.locals.top_n>>
        ELSE <<op>>

\* a client that takes no notes / one that is about to note its first answer
NoNotes == [on |-> FALSE, call |-> <<>>, resp |-> None, later |-> 0]

Watching == [on |-> TRUE, call |-> <<>>, resp |-> None, later |-> 0]

\* the answers counted after the one noted
MaxLater == 2

\* the client's notes after the answer r
Keep(r) ==
    IF ~noted.on THEN noted
    ELSE IF noted.call = <<>>
    THEN [on |-> TRUE, call |-> CallOf(r), resp |-> r.resp, later |-> 0]
    ELSE [noted EXCEPT !.later = Min(noted.later + 1, MaxLater)]

\* (a handler that sorts the shared frame in place)
Publish_SortsInPlace(r) ==
    /\ resp' = r.resp
    /\ locals' = r.locals
    /\ noted' = Keep(r)
    /\ df' = SortByDate(df)
    /\ UNCHANGED <<csv, ties>>

Publish(r) ==
    /\ resp' = r.resp
    /\ locals' = r.locals
    /\ noted' = Keep(r)
    /\ UNCHANGED <<csv, df, ties>>

Snapshot_(ticker) ==
    LET symbol == Upper(ticker)
        sub == RowsOf(symbol)
    IN  [resp |-> IF Len(sub) = 0 THEN NotFound("snapshot", symbol)
                  ELSE [op |-> "snapshot", status |-> "ok", symbol |-> symbol,
                        body |-> Snapshot(symbol, sub)],
         locals |-> [ticker |-> ticker]]

build_stock_snapshot(ticker) ==
    resp = None /\ \E r \in {Snapshot_(ticker)} : Publish(r)

Prices(symbol0) ==
    LET symbol == Upper(symbol0)
        sub == RowsOf(symbol)
    IN  [resp |-> IF Len(sub) = 0 THEN NotFound("prices", symbol)
                  ELSE [op |-> "prices", status |-> "ok", symbol |-> symbol,
                        body |-> List([i \in 1..Len(sub) |->
                                    [date |-> Strftime(sub[i].date), open |-> sub[i].open,
                                     high |-> sub[i].high, low |-> sub[i].low,
                                     close |-> sub[i].close]])],
         locals |-> [symbol |-> symbol0]]

get_prices(symbol) ==
    resp = None /\ \E r \in {Prices(symbol)} : Publish(r)

----------------------------------------------------------------------------
(* GET /forecast/{symbol} *)

\* Python's zero-based s[i] and s[a:b]
At0(s, i) == s[i + 1]

Slice0(s, a, b) == SubSeq(s, a + 1, b)

\* np.log / np.exp: a log-price is carried as the price it is the log of
LogP(c) == [ln |-> c]

ExpP(l) == l.ln

lag == 20

\* (the loop stopped one sample early)
Samples_StopEarly(log_price, dates) ==
    List([k \in 1..Max(0, Len(log_price) - 2 - lag) |->
        LET i == lag + k - 1
        IN  [i |-> i,
             X |-> Slice0(log_price, i - lag, i),
             yi |-> i + 1,
             y |-> At0(log_price, i + 1),
             date |-> At0(dates, i)]])

\* X_list, y_list and sample_dates: one entry per i of range(lag, len - 1)
Samples(log_price, dates) ==
    List([k \in 1..Max(0, Len(log_price) - 1 - lag) |->
        LET i == lag + k - 1
        IN  [i |-> i,
             X |-> Slice0(log_price, i - lag, i),
             yi |-> i + 1,
             y |-> At0(log_price, i + 1),
             date |-> At0(dates, i)]])

\* a start_date is <<kind, year, month, day>>:
\*   "none"     no start_date, or an empty one
\*   "garbage"  text that is no date
\*   "date"     "Y-M-D"
\*   "datetz"   "Y-M-DT00:00:00Z", a date with a time zone
ValidDate(sd) == sd[3] \in 1..12 /\ sd[4] \in 1..DaysInMonth(sd[2], sd[3])

\* (the weights without the recent_mask.any() test)
Weights_NoAnyTest(sample_dates, start_date) ==
    LET ones == List([k \in 1..Len(sample_dates) |-> F(1)])
    IN  IF start_date[1] = "none" THEN ones
        ELSE IF start_date[1] = "garbage" \/ ~ValidDate(start_date) THEN ones
        ELSE IF start_date[1] = "datetz" THEN ones
        ELSE LET start_dt == DayNumber(start_date[2], start_date[3], start_date[4])
             IN  List([k \in 1..Len(sample_dates) |->
                        IF sample_dates[k] >= start_dt THEN F(1) ELSE Frac(3, 10)])

\* the weights of model.fit: ones; samples before start_date get 0.3 when
\* start_date parses, compares with the sample dates and some sample is on or
\* after it.  pd.to_datetime raises on text that is no date; comparing the
\* time-zone-free sample dates with a time-zone-aware start_dt raises too; both
\* land in the except branch, which keeps the ones.
Weights(sample_dates, start_date) ==
    LET ones == List([k \in 1..Len(sample_dates) |-> F(1)])
    IN  IF start_date[1] = "none" THEN ones
        ELSE IF start_date[1] = "garbage" \/ ~ValidDate(start_date) THEN ones
        ELSE IF start_date[1] = "datetz" THEN ones
        ELSE LET start_dt == DayNumber(start_date[2], start_date[3], start_date[4])
                 recent_mask == List([k \in 1..Len(sample_dates) |-> sample_dates[k] >= start_dt])
             IN  IF \E k \in 1..Len(sample_dates) : recent_mask[k]
                 THEN List([k \in 1..Len(sample_dates) |->
                          IF ~recent_mask[k] THEN Frac(3, 10) ELSE ones[k]])
                 ELSE ones

\* the largest member of a non-empty set of numbers of 1..n
Largest(S, n) == n + 1 - (CHOOSE m \in 1..n : (n + 1 - m) \in S)

\* model.fit(X, y, sample_weight) then model.predict(window): the fitted
\* GradientBoostingRegressor (fixed random_state) is a function of the
\* training set alone.  It is stood for by a nearest-sample regressor: among
\* the samples whose window equals the queried one (else whose newest feature
\* equals the queried one's, else all of them), the target of the newest one
\* of full weight (else of the newest one).
Predict(fit, window) ==
    LET all == 1..Len(fit)
        same == {k \in all : fit[k].X = window}
        near == {k \in all : fit[k].X[lag] = window[lag]}
        pool == IF same # {} THEN same ELSE IF near # {} THEN near ELSE all
        heavy == {k \in pool : fit[k].w = F(1)}
    IN  fit[Largest(IF heavy # {} THEN heavy ELSE pool, Len(fit))].y

\* the feature windows of the steps 1..horizon: the last lag log-prices, then
\* np.roll(window, -1) with the prediction written into the last place
\* (rolled the other way: the newest entry wraps to the front)
Roll_DropsNewest(window, pred_log) ==
    <<window[Len(window)]>> \o SubSeq(window, 1, Len(window) - 2) \o <<pred_log>>

\* np.roll(last_log_window, -1) into a new array, then [-1] = pred_log
Roll(window, pred_log) == Append(SubSeq(window, 2, Len(window)), pred_log)

RECURSIVE Windows(_, _, _)
Windows(fit, window, steps) ==
    IF steps = 0 THEN <<>>
    ELSE <<window>> \o Windows(fit, Roll(window, Predict(fit, window)), steps - 1)

\* horizon = max(1, min(int(horizon), 7))
ClampHorizon_NoFloor(h) == Min(h, 7)

ClampHorizon(h) == Max(1, Min(h, 7))

\* sub.tail(252 * 3)
LastThreeYears(rows) == Tail_(rows, 252 * 3)

\* len(sub) < 80
TooShort_AtMost(sub) == Len(sub) <= 80

TooShort(sub) == Len(sub) < 80

Forecast(symbol0, start_date, horizon0) ==
    LET symbol == Upper(symbol0)
        all == RowsOf(symbol)
        horizon == ClampHorizon(horizon0)
        sub == LastThreeYears(all)
        log_price == List([i \in 1..Len(sub) |-> LogP(sub[i].close)])
        dates == List([i \in 1..Len(sub) |-> sub[i].date])
        xy == Samples(log_price, dates)
        weights == Weights(List([k \in 1..Len(xy) |-> xy[k].date]), start_date)
        fit == List([k \in 1..Len(xy) |->
                  [i |-> xy[k].i, X |-> xy[k].X, yi |-> xy[k].yi, y |-> xy[k].y,
                   date |-> xy[k].date, w |-> weights[k]]])
        last_date == dates[Len(dates)]
        windows == Windows(fit, Tail_(log_price, lag), horizon)
        points == List([step \in 1..horizon |->
                     [date |-> Strftime(last_date + step),
                      close |-> ExpP(Predict(fit, windows[step]))]])
        args == [symbol |-> symbol0, start_date |-> start_date, horizon |-> horizon0]
    IN  IF Len(all) = 0
        THEN [resp |-> NotFound("forecast", symbol), locals |-> args]
        ELSE IF TooShort(sub)
        THEN [resp |-> [op |-> "forecast", status |-> "InsufficientData",
                        symbol |-> symbol, body |-> None],
              locals |-> args]
        ELSE [resp |-> [op |-> "forecast", status |-> "ok", symbol |-> symbol,
                        body |-> points],
              locals |-> [symbol |-> symbol0, start_date |-> start_date, horizon |-> horizon0,
                          log_price |-> log_price, dates |-> dates, fit |-> fit,
                          windows |-> windows]]

get_forecast(symbol, start_date, horizon) ==
    resp = None /\ \E r \in {Forecast(symbol, start_date, horizon)} : Publish(r)

----------------------------------------------------------------------------
(* GET /trends/overview *)

\* where the groups of df.groupby("ticker") start and end: the panel is
\* sorted on ticker, so a group starts where the ticker changes
GroupStarts == {i \in 1..Len(df) : i = 1 \/ df[i].ticker # df[i - 1].ticker}

GroupEnds == {i \in 1..Len(df) : i = Len(df) \/ df[i].ticker # df[i + 1].ticker}

\* the keys of df.groupby("ticker"), ascending
Tickers ==
    LET at == SelectSeq(List([i \in 1..Len(df) |-> i]), LAMBDA i : i \in GroupStarts)
    IN  List([k \in 1..Len(at) |-> df[at[k]].ticker])

\* g.sort_values("date") of the group of one ticker
Group(ticker) == SortByDate(SelectSeq(df, LAMBDA r : r.ticker = ticker))

\* the index of df.groupby("date")["close"].mean().sort_index(): the distinct
\* dates of the panel, ascending (each group is in date order, so the oldest
\* and newest dates are at the start and the end of a group)
DateIndex ==
    LET D == {df[i].date : i \in 1..Len(df)}
        firsts == {df[i].date : i \in GroupStarts}
        lasts == {df[i].date : i \in GroupEnds}
        lo == CHOOSE d \in firsts : \A e \in firsts : d <= e
        hi == CHOOSE d \in lasts : \A e \in lasts : e <= d
    IN  IF D = {} THEN <<>>
        ELSE SelectSeq(List([i \in 1..(hi - lo + 1) |-> lo + i - 1]), LAMBDA d : d \in D)

\* the value of that series at one date: the mean of the closes of the date
\* (NaN closes are skipped; NaN when none is left)
MeanClose(date) ==
    LET c == DropNa(Closes(SelectSeq(df, LAMBDA r : r.date = date)))
    IN  IF Len(c) = 0 THEN NaN ELSE FDiv(Sum(c), F(Len(c)))

\* closes_tail.rolling(window).mean().iloc[-1]: NaN unless the window is full
\* of numbers
LastRollingMean(closes_tail, window) ==
    IF Len(closes_tail) < window THEN NaN
    ELSE FDiv(Sum(Tail_(closes_tail, window)), F(window))

\* closes_tail.pct_change().dropna()
PctChange(closes) ==
    DropNa(List([i \in 1..(Len(closes) - 1) |->
                    FSub(FDiv(closes[i + 1], closes[i]), F(1))]))

AllFinite(s) == \A i \in 1..Len(s) : IsFinite(s[i])

\* (a moving average taken of whatever history there is)
HasAverage_Always(closes_tail, window) == Len(closes_tail) >= 1

\* not np.isnan(last_ma)
HasAverage(closes_tail, window) == ~IsNaN(LastRollingMean(closes_tail, window))

\* one pass of the loop over df.groupby("ticker")
TickerStats(ticker) ==
    LET g == Group(ticker)
        closes == Closes(g)
        n == Len(closes)
        last_close == closes[n]
        prev_close == closes[n - 1]
        closes_tail == Tail_(closes, 260)
        rets == PctChange(closes_tail)
        last20 == Tail_(rets, 20)
        past_close == closes[n - 21]
        r_1m == FSub(FDiv(last_close, past_close), F(1))
        last252 == Tail_(closes, 252)
    IN  IF n < 2
        THEN [ticker |-> ticker, n |-> n, counted |-> FALSE]
        ELSE [ticker |-> ticker, n |-> n, counted |-> TRUE,
              as_of |-> g[n].date,
              last_close |-> last_close,
              move |-> IF FGt(last_close, prev_close) THEN "advancer"
                       ELSE IF FLt(last_close, prev_close) THEN "decliner"
                       ELSE "unchanged",
              has_ma50 |-> HasAverage(closes_tail, 50),
              above_50 |-> HasAverage(closes_tail, 50)
                           /\ FGt(last_close, LastRollingMean(closes_tail, 50)),
              has_ma200 |-> HasAverage(closes_tail, 200),
              above_200 |-> HasAverage(closes_tail, 200)
                            /\ FGt(last_close, LastRollingMean(closes_tail, 200)),
              vol |-> IF Len(closes_tail) >= 21 /\ Len(rets) >= 20 /\ AllFinite(last20)
                      THEN Some(Stat("std", last20)) ELSE None,
              r_1m |-> IF n > 21 /\ FGt(past_close, F(0)) /\ IsFinite(r_1m)
                       THEN Some(r_1m) ELSE None,
              ranged |-> Len(last252) >= 30,
              new_high |-> Len(last252) >= 30 /\ FGe(last_close, MaxOf(last252)),
              new_low |-> Len(last252) >= 30 /\ FLe(last_close, MinOf(last252))]

\* a / b if b > 0 else 0.0
Share(a, b) == IF b > 0 THEN Frac(a, b) ELSE F(0)

Overview ==
    LET daily_index == DateIndex
        len == Len(daily_index)
        last_date == daily_index[len]
        last_price == MeanClose(last_date)
        compute_return(days) ==
            IF len <= days THEN F(0)
            ELSE LET ref_price == MeanClose(daily_index[len - days])
                 IN  IF ref_price = F(0) THEN F(0)
                     ELSE FSub(FDiv(last_price, ref_price), F(1))
        tickers == Tickers
        seen == SelectSeq(List([k \in 1..Len(tickers) |-> TickerStats(tickers[k])]),
                          LAMBDA e : e.counted)
        Count(P(_)) == Len(SelectSeq(seen, P))
        universe_count == Len(seen)
        advancers == Count(LAMBDA e : e.move = "advancer")
        decliners == Count(LAMBDA e : e.move = "decliner")
        unchanged == Count(LAMBDA e : e.move = "unchanged")
        total_50 == Count(LAMBDA e : e.has_ma50)
        above_50 == Count(LAMBDA e : e.above_50)
        total_200 == Count(LAMBDA e : e.has_ma200)
        above_200 == Count(LAMBDA e : e.above_200)
        new_highs == Count(LAMBDA e : e.new_high)
        new_lows == Count(LAMBDA e : e.new_low)
        with_vol == SelectSeq(seen, LAMBDA e : e.vol # None)
        vol_values == List([k \in 1..Len(with_vol) |-> with_vol[k].vol[1]])
        with_r == SelectSeq(seen, LAMBDA e : e.r_1m # None)
        cs_1m_returns == List([k \in 1..Len(with_r) |-> with_r[k].r_1m[1]])
        median_20d_vol == Stat("median_or_0", vol_values)
    IN  IF len < 70
        THEN [resp |-> [op |-> "overview", status |-> "InsufficientData",
                        symbol |-> <<>>, body |-> None],
              locals |-> [daily_index |-> daily_index]]
        ELSE [resp |-> [op |-> "overview", status |-> "ok", symbol |-> <<>>,
                        body |-> [last_date |-> Strftime(last_date),
                                  index_1m_return |-> compute_return(21),
                                  index_3m_return |-> compute_return(63),
                                  pct_above_50d |-> Share(above_50, total_50),
                                  pct_above_200d |-> Share(above_200, total_200),
                                  median_20d_vol |-> median_20d_vol,
                                  vol_regime |-> Stat("regime", <<median_20d_vol>>),
                                  pct_advancers |-> Share(advancers, universe_count),
                                  pct_decliners |-> Share(decliners, universe_count),
                                  pct_new_highs |-> Share(new_highs, universe_count),
                                  pct_new_lows |-> Share(new_lows, universe_count),
                                  num_new_highs |-> new_highs,
                                  num_new_lows |-> new_lows,
                                  dispersion_1m |-> Stat("std_or_0", cs_1m_returns)]],
              locals |-> [daily_index |-> daily_index, last_date |-> last_date,
                          seen |-> seen, universe_count |-> universe_count,
                          advancers |-> advancers, decliners |-> decliners,
                          unchanged |-> unchanged,
                          above_50 |-> above_50, total_50 |-> total_50,
                          above_200 |-> above_200, total_200 |-> total_200,
                          new_highs |-> new_highs, new_lows |-> new_lows]]

trends_overview ==
    resp = None /\ \E r \in {Overview} : Publish(r)

----------------------------------------------------------------------------
(* GET /trends/momentum *)

\* (ranked from the worst to the best)
Ranked_Ascending(records) == SortSeq(records, LAMBDA a, b : FLt(a.ret, b.ret))

\* records.sort(key=lambda x: x[1], reverse=True): a stable sort, the best first
Ranked(records) == SortSeq(records, LAMBDA a, b : FGt(a.ret, b.ret))

\* (no test of the reference close)
MomentumRecord_AnyReference(ticker, lookback_days) ==
    LET closes == Closes(Group(ticker))
        last_close == closes[Len(closes)]
        past_close == closes[Len(closes) - lookback_days]
    IN  IF Len(closes) <= lookback_days THEN None
        ELSE Some([ticker |-> ticker, ret |-> FSub(FDiv(last_close, past_close), F(1))])

\* one pass of the loop over df.groupby("ticker"): the record appended, if any
MomentumRecord(ticker, lookback_days) ==
    LET closes == Closes(Group(ticker))
        last_close == closes[Len(closes)]
        past_close == closes[Len(closes) - lookback_days]
    IN  IF Len(closes) <= lookback_days THEN None
        ELSE IF FLe(past_close, F(0)) THEN None
        ELSE Some([ticker |-> ticker, ret |-> FSub(FDiv(last_close, past_close), F(1))])

Momentum(lookback0, top_n0) ==
    LET lookback_days == Max(5, Min(lookback0, 126))
        top_n == Max(1, Min(top_n0, 50))
        tickers == Tickers
        some == SelectSeq(List([k \in 1..Len(tickers) |->
                                   MomentumRecord(tickers[k], lookback_days)]),
                          LAMBDA x : x # None)
        found == List([k \in 1..Len(some) |-> some[k][1]])
        records == Ranked(found)
        Out(recs) == List([k \in 1..Len(recs) |->
                             [ticker |-> recs[k].ticker, ret_1m |-> recs[k].ret]])
        args == [lookback_days |-> lookback0, top_n |-> top_n0, found |-> found]
    IN  IF Len(found) = 0
        THEN [resp |-> [op |-> "momentum", status |-> "ok", symbol |-> <<>>,
                        body |-> [lookback_days |-> lookback_days, top |-> <<>>,
                                  bottom |-> <<>>]],
              locals |-> args]
        ELSE [resp |-> [op |-> "momentum", status |-> "ok", symbol |-> <<>>,
                        body |-> [lookback_days |-> lookback_days,
                                  top |-> Out(Head_(records, top_n)),
                                  bottom |-> Out(Tail_(records, top_n))]],
              locals |-> args]

trends_momentum(lookback_days, top_n) ==
    resp = None /\ \E r \in {Momentum(lookback_days, top_n)} : Publish(r)

\* the handler returns: the answer goes to the client and its locals die
Return ==
    /\ resp # None
    /\ resp' = None
    /\ locals' = None
    /\ UNCHANGED <<csv, df, ties, noted>>

----------------------------------------------------------------------------
(* Price files *)

\* the longest file of arbitrary rows
MaxRows == 2

\* how far below each threshold of the code the generated histories start
MaxShort == 1

\* how many days before the newest date of the file a history may end
MaxLag == 1

\* letters: a, A, B, C and Z (a symbol no file holds)
Sym(c) == <<c>>

\* close patterns, read backwards from the newest row
ShapeTable == << <<2>>, <<3, 1>>, <<1, 3>>, <<1, 2, 4>>, <<2, 0>> >>

CloseAt(shape, back) ==
    LET pat == ShapeTable[shape] IN F(pat[(back % Len(pat)) + 1])

\* n rows of ticker t, one every stride days, the newest on day last
Series(t, n, last, stride, shape) ==
    List([i \in 1..n |-> Row(t, last - (n - i) * stride, CloseAt(shape, n - i))])

\* update_prices.py writes the file sorted on (date, ticker)
DateTickerLess(r, q) ==
    \/ r.date < q.date
    \/ r.date = q.date /\ StrLess(r.ticker, q.ticker)

WriteFile(rows) == SortSeq(rows, DateTickerLess)

\* 2023-12-31, 2024-02-27: forecasts from them cross a year end and a leap day
Day1 == DayNumber(2023, 12, 30)

Day2 == DayNumber(2024, 2, 27)

\* files of a few arbitrary rows: any order, repeated keys, empty closes,
\* tickers in either case
SmallRows ==
    {Row(t, d, c) : t \in {Sym(97), Sym(65), Sym(66)}, d \in {Day1, Day1 + 1}, c \in {NaN, F(1)}}

SmallFiles == UNION {[1..n -> SmallRows] : n \in 0..MaxRows}

Lengths(thresholds) == {t - d : t \in thresholds, d \in 0..MaxShort}

\* one ticker, histories around the thresholds of build_stock_snapshot
SnapshotFiles ==
    {Series(Sym(65), n, Day2, 1, sh) : n \in Lengths({21, 22, 64, 253}), sh \in 1..5}

HasTies(rows) ==
    \E i \in 1..(Len(rows) - 1) :
        rows[i].ticker = rows[i + 1].ticker /\ rows[i].date = rows[i + 1].date

\* the process after start-up: the file is read and sorted, no request yet
Started(files) ==
    /\ csv \in files
    /\ df = Load(csv)
    /\ ties \in (IF HasTies(df) THEN {"keep", "reverse"} ELSE {"keep"})
    /\ resp = None
    /\ locals = None

InitWith(files) == Started(files) /\ noted = NoNotes

Symbols == {Sym(97), Sym(65), Sym(66), Sym(90)}

NextSnapshot ==
    \/ \E t \in Symbols : build_stock_snapshot(t)
    \/ \E t \in Symbols : get_prices(t)
    \/ Return

SpecSnapshot == InitWith(SmallFiles \cup SnapshotFiles) /\ [][NextSnapshot]_vars

\* one ticker, histories around the thresholds of get_forecast
ForecastFiles ==
    {Series(Sym(65), n, last, 1, sh) :
        n \in Lengths({80, 757}), last \in {Day2, DayNumber(2023, 12, 29)}, sh \in 1..4}

StartDates ==
    {<<"none", 0, 0, 0>>, <<"garbage", 0, 0, 0>>, <<"date", 2024, 2, 30>>,
     <<"date", 2023, 12, 1>>, <<"date", 2024, 1, 15>>, <<"date", 2025, 1, 1>>,
     <<"datetz", 2024, 1, 15>>}

Horizons == {0, 3, 8}

NextForecast ==
    \/ \E t \in Symbols, sd \in StartDates, h \in Horizons : get_forecast(t, sd, h)
    \/ Return

SpecForecast == InitWith(SmallFiles \cup ForecastFiles) /\ [][NextForecast]_vars

\* histories around the thresholds of trends_overview, beside a ticker
\* with a row every other day whose history ends up to MaxLag days earlier
OverviewFiles ==
    {WriteFile(Series(Sym(65), n, Day2, 1, sh) \o other) :
        n \in Lengths({2, 22, 30, 50, 200, 261}), sh \in 1..5,
        other \in {<<>>} \cup
                  {Series(Sym(66), 45, Day2 - lg, 2, shb) : lg \in 0..MaxLag, shb \in 2..3}}

\* up to three tickers, histories around the lookbacks 5, 21 and 126
MomentumFiles ==
    {WriteFile(Series(Sym(65), n, Day2, 1, sh) \o b \o c) :
        n \in Lengths({6, 22, 127}), sh \in 2..5,
        b \in {<<>>} \cup {Series(Sym(66), 30, Day2, 1, shb) : shb \in {2, 3, 5}},
        c \in {<<>>, Series(Sym(67), 127, Day2, 1, 4)}}

NextOverview == trends_overview \/ Return

SpecOverview == InitWith(SmallFiles \cup OverviewFiles) /\ [][NextOverview]_vars

Lookbacks == {0, 21, 200}

TopNs == {0, 2, 3, 60}

NextMomentum ==
    \/ \E lb \in Lookbacks, n \in TopNs : trends_momentum(lb, n)
    \/ Return

SpecMomentum == InitWith(SmallFiles \cup MomentumFiles) /\ [][NextMomentum]_vars

\* the whole service on the small files and on one long history
Next ==
    \/ \E t \in Symbols : build_stock_snapshot(t)
    \/ \E t \in Symbols : get_prices(t)
    \/ \E t \in Symbols, sd \in StartDates, h \in Horizons : get_forecast(t, sd, h)
    \/ trends_overview
    \/ \E lb \in Lookbacks, n \in TopNs : trends_momentum(lb, n)
    \/ Return

Init == InitWith(SmallFiles \cup {Series(Sym(65), 80, Day2, 1, 2)})

Spec == Init /\ [][Next]_vars

\* a client that repeats calls: two tickers with long histories, and a few
\* rows with a repeated key, an empty close and a lower-case ticker
RepeatFiles ==
    {WriteFile(Series(Sym(65), 80, Day2, 1, 2) \o Series(Sym(66), 30, Day2 - 1, 1, 3)),
     <<Row(Sym(65), Day1, F(1)), Row(Sym(97), Day1, F(1)), Row(Sym(65), Day1, NaN)>>}

RepeatSymbols == {Sym(97), Sym(65), Sym(90)}

RepeatStartDates == {sd \in StartDates : sd[1] = "none" \/ sd = <<"date", 2024, 1, 15>>}

NextRepeat ==
    \/ \E t \in RepeatSymbols : build_stock_snapshot(t)
    \/ \E t \in RepeatSymbols : get_prices(t)
    \/ \E t \in RepeatSymbols, sd \in RepeatStartDates, h \in {3, 8} : get_forecast(t, sd, h)
    \/ trends_overview
    \/ \E lb \in {21, 200}, n \in {0, 2} : trends_momentum(lb, n)
    \/ Return

InitRepeat == Started(RepeatFiles) /\ noted = Watching

SpecRepeat == InitRepeat /\ [][NextRepeat]_vars

----------------------------------------------------------------------------
(* Properties *)

Answered(op) == resp # None /\ resp.op = op

Served(op) == Answered(op) /\ resp.status = "ok"

\* the rows the panel holds for a symbol as the handlers look it up
Held(symbol) == SelectSeq(df, LAMBDA r : r.ticker = Upper(symbol))

\* the day after a civil date
NextDay(c) ==
    IF c[3] < DaysInMonth(c[1], c[2]) THEN <<c[1], c[2], c[3] + 1>>
    ELSE IF c[2] < 12 THEN <<c[1], c[2] + 1, 1>>
    ELSE <<c[1] + 1, 1, 1>>

RECURSIVE DaysLater(_, _)
DaysLater(c, k) == IF k = 0 THEN c ELSE NextDay(DaysLater(c, k - 1))

\* C2 as claimed: in a forecast, no training sample has the last known
\* log-price (index L-1) as its target; the newest sample's target is the
\* second-to-last known log-price (index L-2).
C2_LastPriceNeverTarget ==
    Served("forecast") =>
        LET L == Len(locals.log_price)
            fit == locals.fit
        IN  /\ \A k \in 1..Len(fit) : fit[k].yi # L - 1
            /\ fit[Len(fit)].yi = L - 2

\* C2 as the code has it: for a series of L log-prices (80 <= L <= 756 after
\* trimming) there is one training sample per i in 20..L-2, its features are
\* the log-prices [i-20, i) and its target is log-price i+1; so the targets are
\* the indices 21..L-1 and the newest sample's target is the last known
\* log-price.
C2_LastPriceIsNewestTarget ==
    Served("forecast") =>
        LET lp == locals.log_price
            L == Len(lp)
            fit == locals.fit
        IN  /\ L >= 80 /\ L <= 756
            /\ Len(fit) = L - 21
            /\ \A k \in 1..Len(fit) :
                  /\ fit[k].i = 19 + k
                  /\ fit[k].X = SubSeq(lp, k, k + 19)
                  /\ fit[k].yi = 20 + k
                  /\ fit[k].y = lp[k + 21]
            /\ fit[Len(fit)].yi = L - 1
            /\ fit[Len(fit)].y = lp[L]

\* a forecast of a 757-row history: 756 log-prices are noted and the newest
\* sample's target is the last of them
C2_Witness ==
    /\ Served("forecast")
    /\ Len(Held(locals.symbol)) = 757
    /\ Len(locals.log_price) = 756
    /\ locals.fit[Len(locals.fit)].yi = 755
    /\ locals.fit[1].X[1] = locals.log_price[1]

StartDay(sd) == DayNumber(sd[2], sd[3], sd[4])

\* start_date is text that pd.to_datetime turns into a timestamp
Parses(sd) == sd[1] \in {"date", "datetz"} /\ ValidDate(sd)

\* C3 as claimed: whenever start_date parses, every training sample dated on
\* or after start_date has weight 1.0 and every earlier one has weight 0.3,
\* also when start_date is later than every sample date.
C3_EarlierAlwaysDownWeighted ==
    (Served("forecast") /\ Parses(locals.start_date)) =>
        \A k \in 1..Len(locals.fit) :
            locals.fit[k].w =
                IF locals.fit[k].date >= StartDay(locals.start_date) THEN F(1) ELSE Frac(3, 10)

\* C3 as the code has it: when start_date parses to a time-zone-free
\* timestamp and at least one training sample is dated on or after it, the
\* samples on or after it have weight 1.0 and the earlier ones 0.3; in every
\* other case (start_date later than every sample date, carrying a time zone,
\* unparseable or absent) every weight is 1.0.
C3_DownWeightedWhenSomeRecent ==
    Served("forecast") =>
        LET sd == locals.start_date
            fit == locals.fit
            applies == /\ sd[1] = "date" /\ ValidDate(sd)
                       /\ \E k \in 1..Len(fit) : fit[k].date >= StartDay(sd)
        IN  \A k \in 1..Len(fit) :
                fit[k].w = IF applies /\ fit[k].date < StartDay(sd) THEN Frac(3, 10) ELSE F(1)

\* a forecast whose start_date falls inside the sample dates
C3_Witness ==
    /\ Served("forecast")
    /\ Parses(locals.start_date)
    /\ locals.fit[1].w = Frac(3, 10)
    /\ locals.fit[1].date < StartDay(locals.start_date)
    /\ locals.fit[Len(locals.fit)].w = F(1)

\* C7: a forecast answers NotFound exactly when the panel holds no row for the
\* (upper-cased) symbol; otherwise InsufficientData exactly when fewer than
\* 80 rows remain of the trailing 756; otherwise it returns a forecast,
\* whatever the horizon and the start_date.
C7_ForecastErrors ==
    Answered("forecast") =>
        LET n == Len(Held(locals.symbol))
            kept == IF n > 756 THEN 756 ELSE n
        IN  /\ (resp.status = "NotFound") <=> (n = 0)
            /\ (n > 0) => ((resp.status = "InsufficientData") <=> (kept < 80))
            /\ (n > 0 /\ kept >= 80) => (resp.status = "ok" /\ Len(resp.body) >= 1)

\* a history of exactly 80 rows, a start_date that is no date and a horizon
\* out of range: a forecast all the same
C7_Witness ==
    /\ Served("forecast")
    /\ Len(Held(locals.symbol)) = 80
    /\ locals.start_date[1] = "garbage"
    /\ locals.horizon = 8

\* C8: a forecast asked with horizon h has max(1, min(h, 7)) points, and the
\* k-th is dated k calendar days after the last known date.
C8_HorizonAndDates ==
    Served("forecast") =>
        LET h == locals.horizon
            n == IF h < 1 THEN 1 ELSE IF h > 7 THEN 7 ELSE h
            held == Held(locals.symbol)
            last == Strftime(held[Len(held)].date)
        IN  /\ Len(resp.body) = n
            /\ \A k \in 1..n : resp.body[k].date = DaysLater(last, k)

\* seven points from 2024-02-27: the third is 2024-03-01, past the leap day
C8_Witness ==
    /\ Served("forecast")
    /\ locals.horizon = 8
    /\ Len(resp.body) = 7
    /\ resp.body[1].date = <<2024, 2, 28>>
    /\ resp.body[3].date = <<2024, 3, 1>>

\* C9: in a snapshot, for N = 21 (ret_1m) and N = 63 (ret_3m), the return is
\* null exactly when the series has fewer than N+1 closes, and otherwise it is
\* close[last] / close[last-N] - 1.
C9_TrailingReturns ==
    Served("snapshot") =>
        LET c == Closes(RowsOf(resp.symbol))
            n == Len(c)
            Right(ret, N) ==
                /\ (ret = None) <=> (n < N + 1)
                /\ (n >= N + 1) => (FAdd(ret[1], F(1)) = FDiv(c[n], c[n - N]))
        IN  /\ Right(resp.body.ret_1m, 21)
            /\ Right(resp.body.ret_3m, 63)

\* 22 closes ending ..., 1, 3: ret_1m is 3/1 - 1 and ret_3m is null
C9_Witness ==
    /\ Served("snapshot")
    /\ Len(Held(resp.symbol)) = 22
    /\ resp.body.ret_1m = Some(F(2))
    /\ resp.body.ret_3m = None

\* a list of momentum records, the best return first / the worst first
NonIncreasing(list) ==
    \A i \in 1..(Len(list) - 1) : FGe(list[i].ret_1m, list[i + 1].ret_1m)

NonDecreasing(list) ==
    \A i \in 1..(Len(list) - 1) : FLe(list[i].ret_1m, list[i + 1].ret_1m)

\* C1 as claimed: the top list of a momentum answer is non-increasing in
\* return and its bottom list is non-decreasing in return.
C1_BottomNonDecreasing ==
    Served("momentum") =>
        /\ NonIncreasing(resp.body.top)
        /\ NonDecreasing(resp.body.bottom)

\* C1 amended: the top list and the bottom list of a momentum answer are both
\* non-increasing in return, and when no more tickers qualify than the clamped
\* top_n the bottom list is the top list, in the same order.
C1_BothNonIncreasing ==
    Served("momentum") =>
        LET top_n == Max(1, Min(locals.top_n, 50))
        IN  /\ NonIncreasing(resp.body.top)
            /\ NonIncreasing(resp.body.bottom)
            /\ (Len(locals.found) <= top_n) => (resp.body.bottom = resp.body.top)

\* two tickers qualify with different returns and top_n = 3
C1_Witness ==
    /\ Served("momentum")
    /\ locals.top_n = 3
    /\ Len(locals.found) = 2
    /\ Len(resp.body.top) = 2
    /\ FGt(resp.body.top[1].ret_1m, resp.body.top[2].ret_1m)
    /\ resp.body.bottom = resp.body.top

\* C4 as claimed: the panel holds its tickers in upper case, and a snapshot,
\* prices or forecast request for a symbol that the file holds in any letter
\* case is never answered NotFound.
C4_CaseInsensitiveLookup ==
    (Answered("snapshot") \/ Answered("prices") \/ Answered("forecast")) =>
        /\ \A i \in 1..Len(df) : df[i].ticker = Upper(df[i].ticker)
        /\ (\E i \in 1..Len(csv) : Upper(csv[i].ticker) = resp.symbol)
               => resp.status # "NotFound"

\* C5 as claimed: every ticker that an overview counts is taken at the
\* reported last_date.
C5_EveryTickerAtLastDate ==
    Served("overview") =>
        \A k \in 1..Len(locals.seen) :
            Strftime(locals.seen[k].as_of) = resp.body.last_date

\* C6 as claimed: in the loaded panel the (ticker, date) pairs are unique, the
\* rows ascend on (ticker, date) and no close is null.
C6_PanelInvariants ==
    /\ \A i, j \in 1..Len(df) :
           (df[i].ticker = df[j].ticker /\ df[i].date = df[j].date) => i = j
    /\ \A i \in 1..(Len(df) - 1) : ~KeyLess(df[i + 1], df[i])
    /\ \A i \in 1..Len(df) : ~IsNaN(df[i].close)

\* the tickers of the panel with at least n rows
WithHistory(n) ==
    {t \in {df[i].ticker : i \in 1..Len(df)} :
        Len(SelectSeq(df, LAMBDA r : r.ticker = t)) >= n}

\* C10: in an overview, pct_above_50d and pct_above_200d lie in [0, 1]; the
\* denominator of each is the number of tickers with at least 50 (200) rows, a
\* ticker with less is in neither numerator nor denominator, and the value is
\* 0.0 when the denominator is zero.
C10_BreadthShares ==
    Served("overview") =>
        LET InRange(p) == FGe(p, F(0)) /\ FLe(p, F(1))
            Right(p, above, total, window) ==
                /\ InRange(p)
                /\ total = Cardinality(WithHistory(window))
                /\ above = Len(SelectSeq(locals.seen, LAMBDA e :
                              e.ticker \in WithHistory(window)
                              /\ FGt(e.last_close,
                                     LastRollingMean(Closes(Group(e.ticker)), window))))
                /\ p = (IF total = 0 THEN F(0) ELSE Frac(above, total))
        IN  /\ Right(resp.body.pct_above_50d, locals.above_50, locals.total_50, 50)
            /\ Right(resp.body.pct_above_200d, locals.above_200, locals.total_200, 200)

\* two tickers counted, one with exactly 50 rows and a last close above its
\* average, the other with 45 rows: 1/1 above the 50-day average, 0.0 for the
\* 200-day one
C10_Witness ==
    /\ Served("overview")
    /\ locals.universe_count = 2
    /\ Cardinality(WithHistory(50)) = 1
    /\ \E k \in 1..2 : locals.seen[k].n = 50
    /\ resp.body.pct_above_50d = F(1)
    /\ locals.total_200 = 0
    /\ resp.body.pct_above_200d = F(0)

\* the tickers of a list of momentum records
TickersOf(list) == {list[k].ticker : k \in 1..Len(list)}

\* C11: in a momentum answer, with L the lookback clamped to [5, 126], n the
\* top_n clamped to [1, 50] and q the number of tickers with more than L rows
\* and a reference close above zero: top holds the min(n, q) best and bottom
\* the min(n, q) worst of them, each with its return over L rows; the two lists
\* share the tickers where the two ranges of the ranking overlap; with q = 0
\* both are empty and the answer is no error.
C11_TopAndBottomSlices ==
    Answered("momentum") =>
        LET L == Max(5, Min(locals.lookback_days, 126))
            n == Max(1, Min(locals.top_n, 50))
            History(t) == Closes(Group(t))
            Reference(t) == History(t)[Len(History(t)) - L]
            RetOf(t) == FSub(FDiv(History(t)[Len(History(t))], Reference(t)), F(1))
            Q == {t \in {df[i].ticker : i \in 1..Len(df)} :
                     Len(History(t)) > L /\ FGt(Reference(t), F(0))}
            q == Cardinality(Q)
            m == Min(n, q)
            top == resp.body.top
            bottom == resp.body.bottom
            Slice(list) ==
                /\ Len(list) = m
                /\ Cardinality(TickersOf(list)) = m
                /\ \A k \in 1..m : list[k].ticker \in Q
                                   /\ list[k].ret_1m = RetOf(list[k].ticker)
        IN  /\ resp.status = "ok"
            /\ resp.body.lookback_days = L
            /\ Slice(top)
            /\ Slice(bottom)
            /\ \A t \in Q \ TickersOf(top) :
                   \A k \in 1..m : FLe(RetOf(t), top[k].ret_1m)
            /\ \A t \in Q \ TickersOf(bottom) :
                   \A k \in 1..m : FGe(RetOf(t), bottom[k].ret_1m)
            /\ Cardinality(TickersOf(top) \cap TickersOf(bottom)) = Max(0, 2 * m - q)

\* three tickers qualify and top_n = 2: the middle one of the ranking closes
\* the top list and opens the bottom list
C11_Witness ==
    /\ Served("momentum")
    /\ locals.top_n = 2
    /\ Len(locals.found) = 3
    /\ Len(resp.body.top) = 2
    /\ Len(resp.body.bottom) = 2
    /\ resp.body.top[2].ticker = resp.body.bottom[1].ticker
    /\ resp.body.top[1].ticker # resp.body.bottom[2].ticker

C13_SlidingWindow ==
    Served("forecast") =>
        LET lp == locals.log_price
            L == Len(lp)
            w == locals.windows
            h == Len(resp.body)
            held == Tail_(Held(locals.symbol), 756)
            pred == List([k \in 1..h |-> Predict(locals.fit, w[k])])
        IN  /\ Len(w) = h
            /\ \A k \in 1..h :
                   /\ Len(w[k]) = 20
                   /\ \A j \in 1..(21 - k) : w[k][j] = lp[L - 21 + k + j]
                   /\ \A j \in 1..(k - 1) : w[k][21 - k + j] = pred[j]
                   /\ resp.body[k].close = ExpP(pred[k])
            /\ L = Len(held)
            /\ \A i \in 1..L : lp[i] = LogP(held[i].close)

\* seven steps: the last window holds the last known log-price in place 14,
\* then six predictions, the first of which differs from that log-price and
\* the last of which differs from the one before it
C13_Witness ==
    /\ Served("forecast")
    /\ Len(resp.body) = 7
    /\ locals.windows[7][14] = locals.log_price[Len(locals.log_price)]
    /\ locals.windows[7][15] # locals.windows[7][14]
    /\ locals.windows[7][20] # locals.windows[7][19]

====
